---- MODULE Spec2Model ----
(***************************************************************************)
(* SolveProductTrips (dronedelivery/solve_product_path/solve_product_path) *)
(* builds a mixed-integer model (decision variables, objective, four       *)
(* constraint families) from customers, hubs and products, hands it to an  *)
(* injected solver and turns the solver's assignment into Trip records.    *)
(*                                                                         *)
(* Customers, hubs and products are identified by the integers 1..n; a     *)
(* collection is the Python list <<1, ..., n>>.  A dict is the sequence of *)
(* its <<key, value>> items in insertion order.  A LinearExpression is the *)
(* function from its variables to their coefficients.                      *)
(***************************************************************************)
EXTENDS Integers, Sequences, FiniteSets, TLC

\* ---- bounds of the instances: list lengths ----
MaxCustomers == 2
MaxHubs == 2
MaxProducts == 2
\* ---- bounds of the instances that are built and solved (Init) ----
MaxTable == 2
MaxDemand == 2
MaxAvail == 1
MaxCap == 2
\* ---- bounds of the instances that are only built (InitBuild) ----
MaxBuildTable == 4
MaxBuildDist == 1
\* ---- bounds of the solver's search box ----
MaxMove == 1
MaxSlack == 0
\* ---- bounds of the one-hub one-customer one-product instances (InitSingle) ----
MaxSingleDemand == 10
MaxSingleAvail == 10
MaxSingleCap == 5
MaxSingleDist == 3
\* ---- bounds of the mappings handed directly to _get_trips (InitTrips) ----
MaxLen == 3
MaxVal == 1

VARIABLES
    customers,                \* list of customers
    hubs,                     \* list of hubs
    products,                 \* list of products
    demand,                   \* demand[c] is customer c's demand dict: product -> quantity
    available,                \* available[h][p] is hub h's get_available_items(p)
    max_flight_capacity,      \* self.max_flight_capacity
    environment,              \* self.environment, the distance oracle
    n_flights_variables,                    \* dict (customer, hub) -> FlightsCustomerHub
    n_product_move_variables,               \* dict (customer, hub, product) -> ProductsMoveCustomerHub
    n_flights_hub_to_hub_variables,         \* dict (hub1, hub2) -> FlightsHubHub
    n_products_move_hub_to_hub_variables,   \* dict (hub1, hub2, product) -> ProductsMoveHubHub
    model,                    \* self.model
    distance_calls,           \* the get_distance calls made so far, in order
    solution,                 \* the solver's mapping, as its items in iteration order
    trips,                    \* the value returned by solve / _get_trips
    phase                     \* "new", "built", "solved", "failed", "mapping"

vars == <<customers, hubs, products, demand, available, max_flight_capacity,
          environment, n_flights_variables, n_product_move_variables,
          n_flights_hub_to_hub_variables, n_products_move_hub_to_hub_variables,
          model, distance_calls, solution, trips, phase>>

instance == <<customers, hubs, products, demand, available, max_flight_capacity,
              environment>>

catalog == <<n_flights_variables, n_product_move_variables,
             n_flights_hub_to_hub_variables, n_products_move_hub_to_hub_variables>>

\* ---------------------------------------------------------------------------
\* Python building blocks
\* ---------------------------------------------------------------------------

None == -1

\* list(range(1, n + 1))
ListOf(n) == [i \in 1..n |-> i]

\* itertools.product(A, B): row-major, the last list varies fastest
product2(A, B) ==
    [i \in 1..(Len(A) * Len(B)) |->
        <<A[((i - 1) \div Len(B)) + 1], B[((i - 1) % Len(B)) + 1]>>]

\* itertools.product(A, B, C)
product3(A, B, C) ==
    [i \in 1..(Len(A) * Len(B) * Len(C)) |->
        <<A[((i - 1) \div (Len(B) * Len(C))) + 1],
          B[(((i - 1) \div Len(C)) % Len(B)) + 1],
          C[((i - 1) % Len(C)) + 1]>>]

\* d[key] for a dict d
Lookup(d, key) == d[CHOOSE i \in 1..Len(d) : d[i][1] = key][2]

\* list(d.values())
values(d) == [i \in 1..Len(d) |-> d[i][2]]

\* list(d.keys())
keys(d) == [i \in 1..Len(d) |-> d[i][1]]

\* the elements of a list
Elems(s) == {s[i] : i \in 1..Len(s)}

\* all dicts from a subset of S to V
PartialFns(S, V) == UNION {[D -> V] : D \in SUBSET S}

\* ---------------------------------------------------------------------------
\* mip_utils: IntegerVariable, LinearExpression, constraints (not in src/)
\* ---------------------------------------------------------------------------

IntegerVariable(family, name, lower_bound, upper_bound, data) ==
    [family |-> family, name |-> name, lower_bound |-> lower_bound,
     upper_bound |-> upper_bound, data |-> data]

\* LinearExpression()
LinearExpression == <<>>

\* le.add_variable(variable, coefficient)
add_variable(le, variable, coefficient) ==
    [v \in (DOMAIN le) \cup {variable} |->
        (IF v \in DOMAIN le THEN le[v] ELSE 0)
        + (IF v = variable THEN coefficient ELSE 0)]

\* a run of le.add_variable calls, terms being the <<variable, coefficient>> list
RECURSIVE add_variables(_, _)
add_variables(le, terms) ==
    IF terms = <<>> THEN le
    ELSE add_variables(add_variable(le, Head(terms)[1], Head(terms)[2]), Tail(terms))

\* le_1 - le_2
le_sub(le_1, le_2) ==
    [v \in (DOMAIN le_1) \cup (DOMAIN le_2) |->
        (IF v \in DOMAIN le_1 THEN le_1[v] ELSE 0)
        - (IF v \in DOMAIN le_2 THEN le_2[v] ELSE 0)]

EqualityConstraint(lhs, rhs) == [type |-> "EqualityConstraint", lhs |-> lhs, rhs |-> rhs]

LE_InequalityConstraint(lhs, rhs) ==
    [type |-> "LE_InequalityConstraint", lhs |-> lhs, rhs |-> rhs]

Model(decision_variables, objective, constraints) ==
    [decision_variables |-> decision_variables, objective |-> objective,
     constraints |-> constraints]

NoModel == Model(<<>>, LinearExpression, <<>>)

\* ---------------------------------------------------------------------------
\* Environment (not in src/): an oracle that need not be symmetric
\* ---------------------------------------------------------------------------

\* hub.location and customer.location: hubs and customers alternate along a line
HubLocation(h) == 2 * h

CustomerLocation(c) == 2 * c + 1

get_distance(env, a, b) == IF a = b THEN 0 ELSE IF a < b THEN env.fwd ELSE env.back

Environments(maxd) == {[fwd |-> f, back |-> b] : f \in 0..maxd, b \in 0..maxd}

\* ---------------------------------------------------------------------------
\* Decision variable catalog
\* ---------------------------------------------------------------------------

FlightsCustomerHub(name, lower_bound, data) ==
    IntegerVariable("FlightsCustomerHub", name, lower_bound, None, data)

ProductsMoveCustomerHub(name, lower_bound, upper_bound, data) ==
    IntegerVariable("ProductsMoveCustomerHub", name, lower_bound, upper_bound, data)

FlightsHubHub(name, lower_bound, data) ==
    IntegerVariable("FlightsHubHub", name, lower_bound, None, data)

ProductsMoveHubHub(name, lower_bound, data) ==
    IntegerVariable("ProductsMoveHubHub", name, lower_bound, None, data)

_get_n_flights_variables(cs, hs) ==
    LET idx == product2(cs, hs)
    IN [i \in 1..Len(idx) |->
          LET customer == idx[i][1]
              hub == idx[i][2]
          IN <<idx[i],
               FlightsCustomerHub(<<"number of flights from", hub, "to", customer>>, 0,
                                  [customer |-> customer, hub |-> hub])>>]

_get_n_products_move_variables(cs, hs, ps, dem) ==
    LET idx == product3(cs, hs, ps)
    IN [i \in 1..Len(idx) |->
          LET customer == idx[i][1]
              hub == idx[i][2]
              product == idx[i][3]
          IN <<idx[i],
               ProductsMoveCustomerHub(
                   <<"number of products of product type", product, "from", hub,
                     "to", customer>>,
                   0,
                   IF product \in DOMAIN dem[customer] THEN dem[customer][product] ELSE 0,
                   [customer |-> customer, hub |-> hub, product |-> product])>>]

HubPairFilter(t) == t[1] # t[2]

\* faulty variant: the hub1 != hub2 filter of the comprehension is missing
_get_n_flights_hub_to_hub_all_pairs(hs) ==
    LET idx == product2(hs, hs)
    IN [i \in 1..Len(idx) |->
          <<idx[i],
            FlightsHubHub(<<"number of flights from", idx[i][1], "to", idx[i][2]>>, 0,
                          [hub1 |-> idx[i][1], hub2 |-> idx[i][2]])>>]

_get_n_flights_hub_to_hub(hs) ==
    LET idx == SelectSeq(product2(hs, hs), HubPairFilter)
    IN [i \in 1..Len(idx) |->
          LET hub1 == idx[i][1]
              hub2 == idx[i][2]
          IN <<idx[i],
               FlightsHubHub(<<"number of flights from", hub1, "to", hub2>>, 0,
                             [hub1 |-> hub1, hub2 |-> hub2])>>]

_get_n_products_move_hub_to_hub(hs, ps) ==
    LET idx == SelectSeq(product3(hs, hs, ps), HubPairFilter)
    IN [i \in 1..Len(idx) |->
          LET hub1 == idx[i][1]
              hub2 == idx[i][2]
              product == idx[i][3]
          IN <<idx[i],
               ProductsMoveHubHub(
                   <<"number of products of product type", product, "from", hub1,
                     "to", hub2>>,
                   0,
                   [hub1 |-> hub1, hub2 |-> hub2, product |-> product])>>]

\* the list get_variables returns
get_variables(nfv, npmv, nfhh, npmhh) ==
    values(nfv) \o values(npmv) \o values(nfhh) \o values(npmhh)

\* ---------------------------------------------------------------------------
\* Objective builder
\* ---------------------------------------------------------------------------

\* faulty variant: the distances are asked in the reverse direction
get_objective_terms_reversed(cs, hs, nfv, nfhh, env) ==
    LET ch == product2(cs, hs)
        hh == SelectSeq(product2(hs, hs), HubPairFilter)
    IN [i \in 1..Len(ch) |->
          <<Lookup(nfv, ch[i]),
            get_distance(env, CustomerLocation(ch[i][1]), HubLocation(ch[i][2]))>>]
       \o
       [i \in 1..Len(hh) |->
          <<Lookup(nfhh, hh[i]),
            get_distance(env, HubLocation(hh[i][2]), HubLocation(hh[i][1]))>>]

\* the <<variable, coefficient>> terms get_objective adds, in order
get_objective_terms(cs, hs, nfv, nfhh, env) ==
    LET ch == product2(cs, hs)
        hh == SelectSeq(product2(hs, hs), HubPairFilter)
    IN [i \in 1..Len(ch) |->
          LET customer == ch[i][1]
              hub == ch[i][2]
          IN <<Lookup(nfv, <<customer, hub>>),
               get_distance(env, HubLocation(hub), CustomerLocation(customer))>>]
       \o
       [i \in 1..Len(hh) |->
          LET hub1 == hh[i][1]
              hub2 == hh[i][2]
          IN <<Lookup(nfhh, <<hub1, hub2>>),
               get_distance(env, HubLocation(hub1), HubLocation(hub2))>>]

get_objective(cs, hs, nfv, nfhh, env) ==
    add_variables(LinearExpression, get_objective_terms(cs, hs, nfv, nfhh, env))

\* the environment.get_distance(a, b) calls get_objective makes, in order
get_objective_calls(cs, hs) ==
    LET ch == product2(cs, hs)
        hh == SelectSeq(product2(hs, hs), HubPairFilter)
    IN [i \in 1..Len(ch) |-> <<HubLocation(ch[i][2]), CustomerLocation(ch[i][1])>>]
       \o
       [i \in 1..Len(hh) |-> <<HubLocation(hh[i][1]), HubLocation(hh[i][2])>>]

\* ---------------------------------------------------------------------------
\* Constraint builder
\* ---------------------------------------------------------------------------

\* faulty variant: a pair gets a constraint only when its demand is non-zero
_get_demand_constraints_nonzero(cs, ps, hs, dem, npmv) ==
    LET Demanded(t) == t[2] \in DOMAIN dem[t[1]] /\ dem[t[1]][t[2]] # 0
        idx == SelectSeq(product2(cs, ps), Demanded)
    IN [i \in 1..Len(idx) |->
          EqualityConstraint(
              add_variables(LinearExpression,
                  [k \in 1..Len(hs) |-> <<Lookup(npmv, <<idx[i][1], hs[k], idx[i][2]>>), 1>>]),
              dem[idx[i][1]][idx[i][2]])]

_get_demand_constraints(cs, ps, hs, dem, npmv) ==
    LET InDemand(t) == t[2] \in DOMAIN dem[t[1]]
        idx == SelectSeq(product2(cs, ps), InDemand)
    IN [i \in 1..Len(idx) |->
          LET customer == idx[i][1]
              product == idx[i][2]
              lhs == add_variables(LinearExpression,
                         [k \in 1..Len(hs) |->
                             <<Lookup(npmv, <<customer, hs[k], product>>), 1>>])
          IN EqualityConstraint(lhs, dem[customer][product])]

\* faulty variant: both directions of a transfer count as inflow
SupplyTransferTerms_both_inflow(hub, product, hs, npmhh) ==
    LET NotHub(h) == h # hub
        others == SelectSeq(hs, NotHub)
    IN [k \in 1..(2 * Len(others)) |->
          IF k % 2 = 1
          THEN <<Lookup(npmhh, <<others[(k + 1) \div 2], hub, product>>), 1>>
          ELSE <<Lookup(npmhh, <<hub, others[k \div 2], product>>), 1>>]

\* the add_variable calls of the inner loop over hub_ for one hub and product
SupplyTransferTerms(hub, product, hs, npmhh) ==
    LET NotHub(h) == h # hub
        others == SelectSeq(hs, NotHub)
    IN [k \in 1..(2 * Len(others)) |->
          IF k % 2 = 1
          THEN <<Lookup(npmhh, <<others[(k + 1) \div 2], hub, product>>), 1>>
          ELSE <<Lookup(npmhh, <<hub, others[k \div 2], product>>), -1>>]

\* faulty variant: the hub-to-hub term le_2 is not subtracted
_get_supply_constraints_no_transfers(cs, ps, hs, avail, npmv, npmhh) ==
    LET idx == product2(hs, ps)
    IN [i \in 1..Len(idx) |->
          LE_InequalityConstraint(
              add_variables(LinearExpression,
                  [k \in 1..Len(cs) |-> <<Lookup(npmv, <<cs[k], idx[i][1], idx[i][2]>>), 1>>]),
              avail[idx[i][1]][idx[i][2]])]

_get_supply_constraints(cs, ps, hs, avail, npmv, npmhh) ==
    LET idx == product2(hs, ps)
    IN [i \in 1..Len(idx) |->
          LET hub == idx[i][1]
              product == idx[i][2]
              le_1 == add_variables(LinearExpression,
                         [k \in 1..Len(cs) |->
                             <<Lookup(npmv, <<cs[k], hub, product>>), 1>>])
              le_2 == add_variables(LinearExpression,
                         SupplyTransferTerms(hub, product, hs, npmhh))
          IN LE_InequalityConstraint(le_sub(le_1, le_2), avail[hub][product])]

\* faulty variant: the flight count enters with the default coefficient 1
_get_trips_constraints_unit_capacity(cs, ps, hs, cap, nfv, npmv) ==
    LET idx == product2(cs, hs)
    IN [i \in 1..Len(idx) |->
          LE_InequalityConstraint(
              le_sub(add_variables(LinearExpression,
                         [k \in 1..Len(ps) |->
                             <<Lookup(npmv, <<idx[i][1], idx[i][2], ps[k]>>), 1>>]),
                     add_variable(LinearExpression, Lookup(nfv, idx[i]), 1)),
              0)]

_get_trips_constraints(cs, ps, hs, cap, nfv, npmv) ==
    LET idx == product2(cs, hs)
    IN [i \in 1..Len(idx) |->
          LET customer == idx[i][1]
              hub == idx[i][2]
              le_1 == add_variables(LinearExpression,
                         [k \in 1..Len(ps) |->
                             <<Lookup(npmv, <<customer, hub, ps[k]>>), 1>>])
              le_2 == add_variable(LinearExpression,
                         Lookup(nfv, <<customer, hub>>), cap)
          IN LE_InequalityConstraint(le_sub(le_1, le_2), 0)]

\* faulty variant: the flight count enters with the default coefficient 1
_get_trips_hub_to_hub_constraints_unit_capacity(ps, hs, cap, nfhh, npmhh) ==
    LET idx == SelectSeq(product2(hs, hs), HubPairFilter)
    IN [i \in 1..Len(idx) |->
          LE_InequalityConstraint(
              le_sub(add_variables(LinearExpression,
                         [k \in 1..Len(ps) |->
                             <<Lookup(npmhh, <<idx[i][1], idx[i][2], ps[k]>>), 1>>]),
                     add_variable(LinearExpression, Lookup(nfhh, idx[i]), 1)),
              0)]

_get_trips_hub_to_hub_constraints(ps, hs, cap, nfhh, npmhh) ==
    LET idx == SelectSeq(product2(hs, hs), HubPairFilter)
    IN [i \in 1..Len(idx) |->
          LET hub1 == idx[i][1]
              hub2 == idx[i][2]
              le_1 == add_variables(LinearExpression,
                         [k \in 1..Len(ps) |->
                             <<Lookup(npmhh, <<hub1, hub2, ps[k]>>), 1>>])
              le_2 == add_variable(LinearExpression,
                         Lookup(nfhh, <<hub1, hub2>>), cap)
          IN LE_InequalityConstraint(le_sub(le_1, le_2), 0)]

\* faulty variant: the supply family is left out of the concatenation
get_constraints_without_supply(cs, hs, ps, dem, avail, cap, nfv, npmv, nfhh, npmhh) ==
    _get_demand_constraints(cs, ps, hs, dem, npmv)
    \o _get_trips_constraints(cs, ps, hs, cap, nfv, npmv)
    \o _get_trips_hub_to_hub_constraints(ps, hs, cap, nfhh, npmhh)

get_constraints(cs, hs, ps, dem, avail, cap, nfv, npmv, nfhh, npmhh) ==
    _get_demand_constraints(cs, ps, hs, dem, npmv)
    \o _get_supply_constraints(cs, ps, hs, avail, npmv, npmhh)
    \o _get_trips_constraints(cs, ps, hs, cap, nfv, npmv)
    \o _get_trips_hub_to_hub_constraints(ps, hs, cap, nfhh, npmhh)

\* ---------------------------------------------------------------------------
\* Solution interpreter
\* ---------------------------------------------------------------------------

Trip(origin, destination, product_type, product_quantity) ==
    [origin |-> origin, destination |-> destination, product_type |-> product_type,
     product_quantity |-> product_quantity]

\* faulty variant: the value != 0 test is missing
IsCustomerMove_any_value(item) == item[1].family = "ProductsMoveCustomerHub"

IsCustomerMove(item) == item[2] # 0 /\ item[1].family = "ProductsMoveCustomerHub"

IsHubMove(item) == item[2] # 0 /\ item[1].family = "ProductsMoveHubHub"

\* faulty variant: origin and destination of a hub-to-customer trip are swapped
_get_trips_swapped(sol) ==
    LET hc == SelectSeq(sol, IsCustomerMove)
        hh == SelectSeq(sol, IsHubMove)
    IN [hub_to_customer |->
            [i \in 1..Len(hc) |->
                Trip(hc[i][1].data.customer, hc[i][1].data.hub,
                     hc[i][1].data.product, hc[i][2])],
        hub_to_hub |->
            [i \in 1..Len(hh) |->
                Trip(hh[i][1].data.hub1, hh[i][1].data.hub2,
                     hh[i][1].data.product, hh[i][2])]]

_get_trips(sol) ==
    LET hc == SelectSeq(sol, IsCustomerMove)
        hh == SelectSeq(sol, IsHubMove)
    IN [hub_to_customer |->
            [i \in 1..Len(hc) |->
                Trip(hc[i][1].data.hub, hc[i][1].data.customer,
                     hc[i][1].data.product, hc[i][2])],
        hub_to_hub |->
            [i \in 1..Len(hh) |->
                Trip(hh[i][1].data.hub1, hh[i][1].data.hub2,
                     hh[i][1].data.product, hh[i][2])]]

NoTrips == [hub_to_customer |-> <<>>, hub_to_hub |-> <<>>]

\* ---------------------------------------------------------------------------
\* State machine
\* ---------------------------------------------------------------------------

Unbuilt ==
    /\ n_flights_variables = <<>>
    /\ n_product_move_variables = <<>>
    /\ n_flights_hub_to_hub_variables = <<>>
    /\ n_products_move_hub_to_hub_variables = <<>>
    /\ model = NoModel
    /\ distance_calls = <<>>
    /\ solution = <<>>
    /\ trips = NoTrips

\* no variable family and no demand or stock table has more than table entries
Fits(c, h, p, table) ==
    /\ c * h <= table
    /\ c * p <= table
    /\ h * p <= table
    /\ h * (h - 1) <= table
    /\ c * h * p <= table
    /\ h * (h - 1) * p <= table

\* the arguments of SolveProductTrips(...): lists of distinct customers, hubs
\* and products, every demanded product being a listed product
Instances(table, Quantities, Stocks, Capacities, Oracles) ==
    \E c \in 0..MaxCustomers, h \in 0..MaxHubs, p \in 0..MaxProducts :
        /\ Fits(c, h, p, table)
        /\ customers = ListOf(c)
        /\ hubs = ListOf(h)
        /\ products = ListOf(p)
        /\ demand \in [1..c -> PartialFns(1..p, Quantities)]
        /\ available \in [1..h -> [1..p -> Stocks]]
        /\ max_flight_capacity \in Capacities
        /\ environment \in Oracles
        /\ phase = "new"
        /\ Unbuilt

\* the oracle of the instances that are solved: a one-way surcharge
OneWay == [fwd |-> 1, back |-> 2]

Init == Instances(MaxTable, 0..MaxDemand, 0..MaxAvail, 1..MaxCap, {OneWay})

\* SolveProductTrips.__init__
Construct ==
    /\ phase = "new"
    /\ LET nfv == _get_n_flights_variables(customers, hubs)
           npmv == _get_n_products_move_variables(customers, hubs, products, demand)
           nfhh == _get_n_flights_hub_to_hub(hubs)
           npmhh == _get_n_products_move_hub_to_hub(hubs, products)
       IN /\ n_flights_variables' = nfv
          /\ n_product_move_variables' = npmv
          /\ n_flights_hub_to_hub_variables' = nfhh
          /\ n_products_move_hub_to_hub_variables' = npmhh
          /\ model' = Model(get_variables(nfv, npmv, nfhh, npmhh),
                            get_objective(customers, hubs, nfv, nfhh, environment),
                            get_constraints(customers, hubs, products, demand, available,
                                            max_flight_capacity, nfv, npmv, nfhh, npmhh))
          /\ distance_calls' = distance_calls \o get_objective_calls(customers, hubs)
    /\ phase' = "built"
    /\ UNCHANGED <<instance, solution, trips>>

\* ---------------------------------------------------------------------------
\* Solver abstraction (injected Mip_Solver, not in src/): any integer
\* assignment within the variables' bounds that satisfies every constraint
\* ---------------------------------------------------------------------------

RECURSIVE SumOver(_, _)
SumOver(S, f) ==
    IF S = {} THEN 0
    ELSE LET v == CHOOSE u \in S : TRUE IN f[v] + SumOver(S \ {v}, f)

\* the value of a linear expression under an assignment
Eval(le, a) == SumOver(DOMAIN le, [v \in DOMAIN le |-> le[v] * a[v]])

Satisfies(c, a) ==
    IF c.type = "EqualityConstraint" THEN Eval(c.lhs, a) = c.rhs
    ELSE Eval(c.lhs, a) <= c.rhs

MaxOf(S) == IF S = {} THEN 0 ELSE CHOOSE x \in S : \A y \in S : y <= x

VarsOf(m, family) == {v \in Elems(m.decision_variables) : v.family = family}

SameLeg(f, x) ==
    \/ /\ f.family = "FlightsCustomerHub" /\ x.family = "ProductsMoveCustomerHub"
       /\ f.data.customer = x.data.customer /\ f.data.hub = x.data.hub
    \/ /\ f.family = "FlightsHubHub" /\ x.family = "ProductsMoveHubHub"
       /\ f.data.hub1 = x.data.hub1 /\ f.data.hub2 = x.data.hub2

\* the largest value the solver tries for a variable: its upper bound when it
\* has one, MaxMove for a hub-to-hub move, and for a flight count the largest
\* volume its leg can carry plus MaxSlack
RECURSIVE Box(_, _)
Box(m, v) ==
    IF v.upper_bound # None THEN v.upper_bound
    ELSE IF v.family = "ProductsMoveHubHub" THEN MaxMove
    ELSE LET leg == {x \in Elems(m.decision_variables) : SameLeg(v, x)}
         IN SumOver(leg, [x \in leg |-> Box(m, x)]) + MaxSlack

\* assignments to the variables V within their bounds
Boxed(m, V) ==
    {a \in [V -> 0..MaxOf({Box(m, v) : v \in V})] :
        \A v \in V : v.lower_bound <= a[v] /\ a[v] <= Box(m, v)}

\* a satisfies every constraint that mentions only variables of V
OkOver(m, a, V) ==
    \A i \in 1..Len(m.constraints) :
        (DOMAIN m.constraints[i].lhs) \subseteq V => Satisfies(m.constraints[i], a)

\* every assignment satisfying the model, found family by family
Solutions(m) ==
    LET X == VarsOf(m, "ProductsMoveCustomerHub")
        XH == VarsOf(m, "ProductsMoveHubHub")
        F == VarsOf(m, "FlightsCustomerHub")
        FH == VarsOf(m, "FlightsHubHub")
        S1 == {a \in Boxed(m, X) : OkOver(m, a, X)}
        S2 == UNION {{a @@ b : b \in {b \in Boxed(m, XH) : OkOver(m, a @@ b, X \cup XH)}}
                     : a \in S1}
        S3 == UNION {{a @@ b : b \in {b \in Boxed(m, F) : OkOver(m, a @@ b, X \cup XH \cup F)}}
                     : a \in S2}
    IN UNION {{a @@ b : b \in {b \in Boxed(m, FH) :
                                  OkOver(m, a @@ b, X \cup XH \cup F \cup FH)}}
              : a \in S3}

\* the mapping mip_solver.solve returns for the assignment a
SolutionItems(m, a) ==
    [i \in 1..Len(m.decision_variables) |->
        <<m.decision_variables[i], a[m.decision_variables[i]]>>]

\* the assignment a mapping stands for
AsAssignment(sol) == [v \in {sol[i][1] : i \in 1..Len(sol)} |->
                         sol[CHOOSE i \in 1..Len(sol) : sol[i][1] = v][2]]

\* solve(): the solver returns an assignment and _get_trips interprets it
SolveOk ==
    /\ phase = "built"
    /\ \E a \in Solutions(model) :
          /\ solution' = SolutionItems(model, a)
          /\ trips' = _get_trips(SolutionItems(model, a))
    /\ phase' = "solved"
    /\ UNCHANGED <<instance, catalog, model, distance_calls>>

\* solve(): the solver raises because the model is infeasible; nothing is returned
SolveFail ==
    /\ phase = "built"
    /\ Solutions(model) = {}
    /\ phase' = "failed"
    /\ UNCHANGED <<instance, catalog, model, distance_calls, solution, trips>>

Next == Construct \/ SolveOk \/ SolveFail

Spec == Init /\ [][Next]_vars

\* ---------------------------------------------------------------------------
\* One hub, one customer, one product (Scenario A and its neighbours)
\* ---------------------------------------------------------------------------

InitSingle ==
    /\ customers = ListOf(1)
    /\ hubs = ListOf(1)
    /\ products = ListOf(1)
    /\ demand \in [1..1 -> [1..1 -> 1..MaxSingleDemand]]
    /\ available \in [1..1 -> [1..1 -> 0..MaxSingleAvail]]
    /\ max_flight_capacity \in 1..MaxSingleCap
    /\ environment \in {[fwd |-> f, back |-> 0] : f \in 0..MaxSingleDist}
    /\ phase = "new"
    /\ Unbuilt

SpecSingle == InitSingle /\ [][Next]_vars

\* ---------------------------------------------------------------------------
\* Model building alone, over larger instances and every oracle
\* ---------------------------------------------------------------------------

InitBuild == Instances(MaxBuildTable, 1..1, 0..0, 1..1, Environments(MaxBuildDist))

NextBuild == Construct

SpecBuild == InitBuild /\ [][NextBuild]_vars

\* ---------------------------------------------------------------------------
\* _get_trips on an arbitrary variable-to-value mapping
\* ---------------------------------------------------------------------------

\* variables of the four families over two hubs, one customer, one product
TripVariables ==
    LET hs == ListOf(2)
        cs == ListOf(1)
        ps == ListOf(1)
        dem == [c \in 1..1 |-> [p \in 1..1 |-> MaxVal]]
    IN Elems(get_variables(_get_n_flights_variables(cs, hs),
                           _get_n_products_move_variables(cs, hs, ps, dem),
                           _get_n_flights_hub_to_hub(hs),
                           _get_n_products_move_hub_to_hub(hs, ps)))

\* the items of a dict: no variable occurs twice
Mappings ==
    {s \in UNION {[1..n -> TripVariables \X (0..MaxVal)] : n \in 0..MaxLen} :
        \A i, j \in 1..Len(s) : s[i][1] = s[j][1] => i = j}

InitTrips ==
    /\ customers = <<>>
    /\ hubs = <<>>
    /\ products = <<>>
    /\ demand = <<>>
    /\ available = <<>>
    /\ max_flight_capacity \in 1..1
    /\ environment \in Environments(0)
    /\ n_flights_variables = <<>>
    /\ n_product_move_variables = <<>>
    /\ n_flights_hub_to_hub_variables = <<>>
    /\ n_products_move_hub_to_hub_variables = <<>>
    /\ model = NoModel
    /\ distance_calls = <<>>
    /\ solution \in Mappings
    /\ trips = NoTrips
    /\ phase = "mapping"

\* a direct call of _get_trips(solution)
Interpret ==
    /\ phase = "mapping"
    /\ trips' = _get_trips(solution)
    /\ phase' = "solved"
    /\ UNCHANGED <<instance, catalog, model, distance_calls, solution>>

NextTrips == Interpret

SpecTrips == InitTrips /\ [][NextTrips]_vars

\* ---------------------------------------------------------------------------
\* Vocabulary of the properties
\* ---------------------------------------------------------------------------

nC == Len(customers)
nH == Len(hubs)
nP == Len(products)

Built == phase \in {"built", "solved", "failed"}

\* the decision variable of a family with the given index data
VarWith(family, data) == CHOOSE v \in VarsOf(model, family) : v.data = data

XV(c, h, p) == VarWith("ProductsMoveCustomerHub", [customer |-> c, hub |-> h, product |-> p])
FV(c, h) == VarWith("FlightsCustomerHub", [customer |-> c, hub |-> h])
XHV(h1, h2, p) == VarWith("ProductsMoveHubHub", [hub1 |-> h1, hub2 |-> h2, product |-> p])
FHV(h1, h2) == VarWith("FlightsHubHub", [hub1 |-> h1, hub2 |-> h2])

\* the value the returned mapping gives a variable
Val(v) == AsAssignment(solution)[v]

\* sum of g[x] over the finite set S
Sum(S, g) == SumOver(S, g)

HubPairs == {t \in (1..nH) \X (1..nH) : t[1] # t[2]}

IsEquality(c) == c.type = "EqualityConstraint"
IsInequality(c) == c.type = "LE_InequalityConstraint"

\* the model's constraints, split by kind and then by position
DemandFamily == SelectSeq(model.constraints, IsEquality)
Inequalities == SelectSeq(model.constraints, IsInequality)
SupplyFamily == SubSeq(Inequalities, 1, nH * nP)
TripsFamily == SubSeq(Inequalities, nH * nP + 1, nH * nP + nC * nH)
HubTripsFamily == SubSeq(Inequalities, nH * nP + nC * nH + 1, Len(Inequalities))

Count(s, x) == Cardinality({i \in 1..Len(s) : s[i] = x})

\* (customer, product) pairs by the customer's demand mapping
KeyPairs == {t \in (1..nC) \X (1..nP) : t[2] \in DOMAIN demand[t[1]]}
NonzeroPairs == {t \in KeyPairs : demand[t[1]][t[2]] # 0}

\* sum over hubs of ProductsMoveCustomerHub(c, h, p) = rhs
DemandRow(c, p) ==
    EqualityConstraint([v \in {XV(c, h, p) : h \in 1..nH} |-> 1], demand[c][p])

\* the demand family holds exactly one row per pair of P, and nothing else
DemandFamilyIs(P) ==
    /\ Len(DemandFamily) = Cardinality(P)
    /\ \A t \in P :
          Count(DemandFamily, DemandRow(t[1], t[2]))
              = Cardinality({u \in P : DemandRow(u[1], u[2]) = DemandRow(t[1], t[2])})

DemandMet ==
    \A t \in KeyPairs :
        Sum(1..nH, [h \in 1..nH |-> Val(XV(t[1], h, t[2]))]) = demand[t[1]][t[2]]

\* C1 (as stated): once the model is built, the demand family has exactly one
\* equality per (customer, product) pair with NONZERO demand and none for any
\* other pair, and every returned assignment meets each demand exactly.
C1_Original ==
    Built => /\ DemandFamilyIs(NonzeroPairs)
             /\ (phase = "solved" => DemandMet)

\* C1 (amended): once the model is built, the demand family has exactly one
\* equality per (customer, product) pair whose product is a key of the
\* customer's demand mapping (an explicit 0 included) and none for any other
\* pair; its left side is the sum over all hubs of ProductsMoveCustomerHub with
\* coefficient 1 and its right side the demand; every returned assignment has
\* hub-to-customer flow summed over hubs equal to the demand.
C1_DemandEquality ==
    Built => /\ DemandFamilyIs(KeyPairs)
             /\ (phase = "solved" => DemandMet)

\* a returned assignment for an instance with an explicit zero demand next to a
\* positive one
C1_Witness ==
    /\ phase = "solved"
    /\ nH >= 1
    /\ Len(DemandFamily) = 2
    /\ \E t \in KeyPairs : demand[t[1]][t[2]] = 0
    /\ \E t \in KeyPairs : demand[t[1]][t[2]] > 0

\* customer outflow minus net hub-to-hub inflow <= available
SupplyRow(h, p) ==
    LET out == {XV(c, h, p) : c \in 1..nC}
        inflow == {XHV(g, h, p) : g \in (1..nH) \ {h}}
        outflow == {XHV(h, g, p) : g \in (1..nH) \ {h}}
    IN LE_InequalityConstraint(
           [v \in out \cup inflow \cup outflow |->
               IF v \in out THEN 1 ELSE IF v \in inflow THEN -1 ELSE 1],
           available[h][p])

SupplyRespected ==
    \A h \in 1..nH, p \in 1..nP :
        Sum(1..nC, [c \in 1..nC |-> Val(XV(c, h, p))])
          - Sum((1..nH) \ {h},
                [g \in (1..nH) \ {h} |-> Val(XHV(g, h, p)) - Val(XHV(h, g, p))])
        <= available[h][p]

\* C2: the supply family holds exactly one upper-bound constraint per (hub,
\* product), and in every returned assignment a hub's shipments to customers
\* minus its net inflow from the other hubs is at most its available items.
C2_SupplyBalance ==
    Built => /\ Len(SupplyFamily) = nH * nP
             /\ \A h \in 1..nH, p \in 1..nP :
                   SupplyFamily[(h - 1) * nP + p] = SupplyRow(h, p)
             /\ (phase = "solved" => SupplyRespected)

\* a hub ships to its customer more than it has, covered by a transfer
C2_Witness ==
    /\ phase = "solved"
    /\ nH = 2
    /\ \E p \in 1..nP :
          /\ Val(XHV(1, 2, p)) > 0
          /\ Sum(1..nC, [c \in 1..nC |-> Val(XV(c, 2, p))]) > available[2][p]

TripsRow(c, h) ==
    LET moves == {XV(c, h, p) : p \in 1..nP}
    IN LE_InequalityConstraint(
           [v \in moves \cup {FV(c, h)} |-> IF v \in moves THEN 1 ELSE -max_flight_capacity],
           0)

HubTripsRow(h1, h2) ==
    LET moves == {XHV(h1, h2, p) : p \in 1..nP}
    IN LE_InequalityConstraint(
           [v \in moves \cup {FHV(h1, h2)} |->
               IF v \in moves THEN 1 ELSE -max_flight_capacity],
           0)

CapacityRespected ==
    /\ \A c \in 1..nC, h \in 1..nH :
          Sum(1..nP, [p \in 1..nP |-> Val(XV(c, h, p))])
              <= max_flight_capacity * Val(FV(c, h))
    /\ \A t \in HubPairs :
          Sum(1..nP, [p \in 1..nP |-> Val(XHV(t[1], t[2], p))])
              <= max_flight_capacity * Val(FHV(t[1], t[2]))

\* C3: the model holds exactly one capacity constraint per (customer, hub) and
\* one per ordered pair of distinct hubs, both with max_flight_capacity, and in
\* every returned assignment the product volume of a leg is at most
\* max_flight_capacity times the flights of that leg.
C3_TripCapacity ==
    Built => /\ Len(TripsFamily) = nC * nH
             /\ \A c \in 1..nC, h \in 1..nH : Count(TripsFamily, TripsRow(c, h)) = 1
             /\ Len(HubTripsFamily) = Cardinality(HubPairs)
             /\ \A t \in HubPairs : Count(HubTripsFamily, HubTripsRow(t[1], t[2])) = 1
             /\ (phase = "solved" => CapacityRespected)

\* a customer leg that needs two flights next to a used hub-to-hub leg
C3_Witness ==
    /\ phase = "solved"
    /\ nH = 2
    /\ \E c \in 1..nC, h \in 1..nH, p \in 1..nP :
          Val(XV(c, h, p)) > max_flight_capacity /\ Val(FV(c, h)) >= 2
    /\ \E t \in HubPairs, p \in 1..nP : Val(XHV(t[1], t[2], p)) > 0

\* ---------------------------------------------------------------------------
\* Solution interpreter properties
\* ---------------------------------------------------------------------------

\* positions of the non-zero items of a family in the mapping
MovePositions(family) ==
    {i \in 1..Len(solution) : solution[i][2] # 0 /\ solution[i][1].family = family}

\* the rank of position i among the positions P
Rank(P, i) == Cardinality({j \in P : j <= i})

\* C4: _get_trips returns exactly one Trip per non-zero ProductsMoveCustomerHub
\* item and one per non-zero ProductsMoveHubHub item, in the mapping's order,
\* with origin, destination and product read from the variable's data and the
\* quantity equal to the value; zero-valued moves and flight variables give none.
C4_TripsPerMove ==
    phase = "solved" =>
        LET PC == MovePositions("ProductsMoveCustomerHub")
            PH == MovePositions("ProductsMoveHubHub")
        IN /\ Len(trips.hub_to_customer) = Cardinality(PC)
           /\ Len(trips.hub_to_hub) = Cardinality(PH)
           /\ \A i \in PC :
                 trips.hub_to_customer[Rank(PC, i)]
                     = [origin |-> solution[i][1].data.hub,
                        destination |-> solution[i][1].data.customer,
                        product_type |-> solution[i][1].data.product,
                        product_quantity |-> solution[i][2]]
           /\ \A i \in PH :
                 trips.hub_to_hub[Rank(PH, i)]
                     = [origin |-> solution[i][1].data.hub1,
                        destination |-> solution[i][1].data.hub2,
                        product_type |-> solution[i][1].data.product,
                        product_quantity |-> solution[i][2]]

\* a mapping with a hub-to-hub move first, a zero-valued customer move and a
\* non-zero flight count
C4_Witness ==
    /\ phase = "solved"
    /\ Len(solution) = MaxLen
    /\ solution[1][1].family = "ProductsMoveHubHub" /\ solution[1][2] # 0
    /\ \E i \in 1..Len(solution) :
          solution[i][1].family = "ProductsMoveCustomerHub" /\ solution[i][2] = 0
    /\ \E i \in 1..Len(solution) :
          solution[i][1].family = "FlightsCustomerHub" /\ solution[i][2] # 0
    /\ Len(trips.hub_to_hub) = 1
    /\ trips.hub_to_customer = <<>>

\* total quantity of the hub_to_customer trips to customer c of product p
Delivered(c, p) ==
    LET T == {i \in 1..Len(trips.hub_to_customer) :
                 /\ trips.hub_to_customer[i].destination = c
                 /\ trips.hub_to_customer[i].product_type = p}
    IN Sum(T, [i \in T |-> trips.hub_to_customer[i].product_quantity])

TotalDemand(p) ==
    Sum(1..nC, [c \in 1..nC |-> IF p \in DOMAIN demand[c] THEN demand[c][p] ELSE 0])

TotalAvailable(p) == Sum(1..nH, [h \in 1..nH |-> available[h][p]])

Oversubscribed == \E p \in 1..nP : TotalDemand(p) > TotalAvailable(p)

\* C6: when for some product the total demand exceeds the total available
\* items, no assignment satisfies the built model, whatever the hub-to-hub
\* transfers, and solve fails without producing trips.
C6_Oversubscribed ==
    Oversubscribed =>
        /\ phase # "solved"
        /\ (phase = "built" => Solutions(model) = {})
        /\ (phase = "failed" => trips = NoTrips /\ solution = <<>>)

\* the failure of an oversubscribed instance with two hubs and some stock
C6_Witness ==
    /\ phase = "failed"
    /\ nH = 2
    /\ \E p \in 1..nP : TotalDemand(p) > TotalAvailable(p) /\ TotalAvailable(p) > 0

\* ---------------------------------------------------------------------------
\* Degenerate instances
\* ---------------------------------------------------------------------------

Degenerate == nC = 0 \/ nH = 0 \/ nP = 0

EmptyModel ==
    /\ model.decision_variables = <<>>
    /\ model.constraints = <<>>
    /\ model.objective = LinearExpression

\* the objective's value under the returned mapping
ObjectiveValue == Eval(model.objective, AsAssignment(solution))

SolvedEmpty == phase = "solved" => trips = NoTrips /\ ObjectiveValue = 0

\* no customer's demand mapping has a listed product as key
NoListedDemand == \A c \in 1..nC : (DOMAIN demand[c]) \cap Elems(products) = {}

\* C7 (as stated): whenever customers, hubs or products is empty, the built
\* model has no variable, no constraint and the zero objective, and solving
\* yields empty trip lists with objective 0 rather than a failure.
C7_Original ==
    (Built /\ Degenerate) => /\ EmptyModel
                             /\ phase # "failed"
                             /\ (phase = "built" => Solutions(model) # {})
                             /\ SolvedEmpty

\* C7 (amended): whenever customers, hubs or products is empty, the built model
\* has no ProductsMoveCustomerHub variable and every result has an empty
\* hub_to_customer list; the model has no variable, no constraint and the zero
\* objective exactly when hubs is empty and no customer's demand mapping has a
\* listed product, or customers and products are empty and there is at most
\* one hub; solving such a model yields empty trip lists with objective 0
\* rather than a failure.
C7_Degenerate ==
    (Built /\ Degenerate) =>
        /\ VarsOf(model, "ProductsMoveCustomerHub") = {}
        /\ (phase = "solved" => trips.hub_to_customer = <<>>)
        /\ EmptyModel <=> \/ nH = 0 /\ NoListedDemand
                          \/ nC = 0 /\ nP = 0 /\ nH <= 1
        /\ EmptyModel => /\ phase # "failed"
                         /\ (phase = "built" => Solutions(model) # {})
                         /\ SolvedEmpty

\* the result of solving the empty model of an instance without hubs whose
\* customers demand nothing
C7_Witness ==
    /\ phase = "solved"
    /\ nH = 0
    /\ nC = MaxCustomers
    /\ nP >= 1
    /\ EmptyModel
    /\ trips = NoTrips

\* ---------------------------------------------------------------------------
\* Objective
\* ---------------------------------------------------------------------------

\* get_distance(a, b) was called exactly once
CalledOnce(a, b) == Count(distance_calls, <<a, b>>) = 1

\* C8: the objective's coefficient on FlightsCustomerHub(customer, hub) is
\* get_distance(hub.location, customer.location), its coefficient on
\* FlightsHubHub(hub1, hub2) is get_distance(hub1.location, hub2.location), it
\* holds no other variable, the oracle is called once per such pair in that
\* direction, and an asymmetric distance gives the two directions of a hub
\* pair different coefficients.
C8_Objective ==
    Built =>
        /\ DOMAIN model.objective
              = {FV(c, h) : c \in 1..nC, h \in 1..nH} \cup {FHV(t[1], t[2]) : t \in HubPairs}
        /\ \A c \in 1..nC, h \in 1..nH :
              /\ model.objective[FV(c, h)]
                    = get_distance(environment, HubLocation(h), CustomerLocation(c))
              /\ CalledOnce(HubLocation(h), CustomerLocation(c))
        /\ \A t \in HubPairs :
              /\ model.objective[FHV(t[1], t[2])]
                    = get_distance(environment, HubLocation(t[1]), HubLocation(t[2]))
              /\ CalledOnce(HubLocation(t[1]), HubLocation(t[2]))
              /\ (get_distance(environment, HubLocation(t[1]), HubLocation(t[2]))
                      # get_distance(environment, HubLocation(t[2]), HubLocation(t[1]))
                  => model.objective[FHV(t[1], t[2])] # model.objective[FHV(t[2], t[1])])
        /\ Len(distance_calls) = nC * nH + Cardinality(HubPairs)

\* a built objective over two customers and two hubs under an asymmetric oracle
C8_Witness ==
    /\ phase = "built"
    /\ nC = MaxCustomers
    /\ nH = MaxHubs
    /\ environment.fwd # environment.back
    /\ model.objective[FHV(1, 2)] # model.objective[FHV(2, 1)]
    /\ model.objective[FV(1, 1)] # model.objective[FV(1, 2)]

\* ---------------------------------------------------------------------------
\* Scenario A
\* ---------------------------------------------------------------------------

CeilDiv(a, b) == (a + b - 1) \div b

\* the least objective value over the assignments satisfying the model
MinObjective ==
    LET O == {Eval(model.objective, a) : a \in Solutions(model)}
    IN CHOOSE x \in O : \A y \in O : x <= y

SingleLane == nC = 1 /\ nH = 1 /\ nP = 1

IsScenarioA ==
    /\ SingleLane
    /\ 1 \in DOMAIN demand[1] /\ demand[1][1] = 10
    /\ available[1][1] = 10
    /\ max_flight_capacity = 5
    /\ get_distance(environment, HubLocation(1), CustomerLocation(1)) = 3

\* C9: with one hub, one customer and one product, available >= demand d > 0,
\* capacity c > 0 and hub-customer distance D, the minimum of the objective
\* over the satisfying assignments is D * ceil(d / c): the flow is forced to d
\* and the flights to at least ceil(d / c).  In Scenario A the optimum is 6,
\* reached with 2 flights.
C9_ScenarioA ==
    (/\ Built
     /\ SingleLane
     /\ 1 \in DOMAIN demand[1] /\ demand[1][1] > 0
     /\ available[1][1] >= demand[1][1]
     /\ max_flight_capacity > 0) =>
        LET d == demand[1][1]
            D == get_distance(environment, HubLocation(1), CustomerLocation(1))
            flights == CeilDiv(d, max_flight_capacity)
        IN /\ Solutions(model) # {}
           /\ MinObjective = D * flights
           /\ \A a \in Solutions(model) : a[XV(1, 1, 1)] = d /\ a[FV(1, 1)] >= flights
           /\ \E a \in Solutions(model) : a[FV(1, 1)] = flights
           /\ phase # "failed"
           /\ (phase = "solved" => Val(XV(1, 1, 1)) = d /\ Val(FV(1, 1)) >= flights)
           /\ (IsScenarioA => MinObjective = 6 /\ flights = 2)

\* Scenario A solved at its optimum
C9_Witness ==
    /\ phase = "solved"
    /\ IsScenarioA
    /\ Val(FV(1, 1)) = 2
    /\ ObjectiveValue = 6

\* ---------------------------------------------------------------------------
\* Decision variable catalog properties
\* ---------------------------------------------------------------------------

NoDuplicates(s) == \A i, j \in 1..Len(s) : s[i] = s[j] => i = j

\* the dict d has exactly the keys K, each once, and every value is a variable
\* of the family whose data is Data(key)
CatalogIs(d, K, family, Data(_)) ==
    /\ Elems(keys(d)) = K
    /\ Len(d) = Cardinality(K)
    /\ \A i \in 1..Len(d) : d[i][2].family = family /\ d[i][2].data = Data(d[i][1])

DataCH(k) == [customer |-> k[1], hub |-> k[2]]
DataCHP(k) == [customer |-> k[1], hub |-> k[2], product |-> k[3]]
DataHH(k) == [hub1 |-> k[1], hub2 |-> k[2]]
DataHHP(k) == [hub1 |-> k[1], hub2 |-> k[2], product |-> k[3]]

\* C10: each of the four mappings holds exactly one variable per valid index
\* tuple and nothing else, no hub-to-hub variable pairs a hub with itself,
\* every variable's data is the tuple it is keyed by, and the list handed to
\* the model holds each of these variables exactly once.
C10_Catalog ==
    Built =>
        /\ CatalogIs(n_flights_variables, (1..nC) \X (1..nH), "FlightsCustomerHub", DataCH)
        /\ CatalogIs(n_product_move_variables, (1..nC) \X (1..nH) \X (1..nP),
                     "ProductsMoveCustomerHub", DataCHP)
        /\ CatalogIs(n_flights_hub_to_hub_variables, HubPairs, "FlightsHubHub", DataHH)
        /\ CatalogIs(n_products_move_hub_to_hub_variables,
                     {t \in (1..nH) \X (1..nH) \X (1..nP) : t[1] # t[2]},
                     "ProductsMoveHubHub", DataHHP)
        /\ \A v \in Elems(model.decision_variables) :
              v.family \in {"FlightsHubHub", "ProductsMoveHubHub"} => v.data.hub1 # v.data.hub2
        /\ NoDuplicates(model.decision_variables)
        /\ Elems(model.decision_variables)
              = Elems(values(n_flights_variables))
                \cup Elems(values(n_product_move_variables))
                \cup Elems(values(n_flights_hub_to_hub_variables))
                \cup Elems(values(n_products_move_hub_to_hub_variables))
        /\ Len(model.decision_variables)
              = nC * nH + nC * nH * nP + Cardinality(HubPairs) + Cardinality(HubPairs) * nP

\* a built catalog with all four families populated
C10_Witness ==
    /\ phase = "built"
    /\ Len(n_flights_variables) = MaxBuildTable
    /\ Len(n_product_move_variables) = MaxBuildTable
    /\ Len(n_flights_hub_to_hub_variables) = 2
    /\ Len(n_products_move_hub_to_hub_variables) = 2

====
